---- MODULE Spec2Model ----
(***************************************************************************)
(* Model of sausheong/vdb (src/main.go): the process-wide vector store     *)
(* vdb, its gob snapshot vdb.gob, the chunk cleaner and the similarity     *)
(* search.                                                                 *)
(*                                                                         *)
(* Numbers.  A float32 component is held as an integer count of 1/Unit, a  *)
(* dot product or a sum of squares as an integer count of 1/Unit^2, and a  *)
(* similarity as an exact fraction num/den or as NaN.  On the vectors used *)
(* here equal fractions are values float32 computes exactly (0, 1, NaN)    *)
(* and unequal fractions lie much further apart than float32 rounding, so  *)
(* map-key equality and ordering of the fractions are those of the floats. *)
(*                                                                         *)
(* Files.  vdb.gob is a sequence of cells: one header cell (gob's type     *)
(* descriptor, message length and slice length) followed by one cell per   *)
(* record.  The file system is taken to be reliable: opening with O_CREATE *)
(* and writing succeed.                                                    *)
(***************************************************************************)
EXTENDS Integers, Sequences, FiniteSets, TLC

VARIABLES
  vdb,      \* var vdb []VectorDocument of the running process
  file,     \* vdb.gob: whether it exists, and its cells
  pc,       \* "run" or "crashed" (the process panicked)
  lastOp,   \* the operation that produced this state
  afterAdd, \* lastOp is a load that directly followed a completed append
  question, \* argument of the last getSimilarChunks
  out,      \* result of the last getSimilarChunks
  text,     \* argument of clean
  cleaned,  \* result of clean
  cdone,    \* clean has run
  va, vb,   \* arguments of dotproduct / similarity
  dp,       \* result of dotproduct
  sim,      \* result of similarity
  sdone     \* dotproduct and similarity have run

vars == <<vdb, file, pc, lastOp, afterAdd, question, out,
          text, cleaned, cdone, va, vb, dp, sim, sdone>>

storeVars == <<vdb, file, pc, lastOp, afterAdd, question, out>>
cleanVars == <<text, cleaned, cdone>>
simVars   == <<va, vb, dp, sim, sdone>>

----------------------------------------------------------------------------
(* Bounds *)

MaxRecords == 4   \* most records held in vdb
MaxAtoms   == 5   \* most atoms an input text of clean is built from
MaxDim     == 2   \* longest vector handed to dotproduct / similarity

----------------------------------------------------------------------------
(* Numbers *)

Unit == 10       \* a float32 component is an integer count of 1/Unit
TopK == 3        \* keys[:3] in getSimilarChunks
ShortLen == 3    \* len(sl) > 3 in removeShortStrings

RECURSIVE SumTo(_, _)
SumTo(f, n) == IF n = 0 THEN 0 ELSE f[n] + SumTo(f, n - 1)

NaN == [nan |-> TRUE, num |-> 0, den |-> 1]
Frac(n, d) == [nan |-> FALSE, num |-> n, den |-> d]

\* x / y for x in units of 1/Unit^2 and y in units of 1/Unit^4; y = 0 only
\* comes with x = 0 here (a zero sum of squares makes the dot product zero),
\* and float32 0/0 is NaN
Div(x, y) == IF y = 0 THEN NaN ELSE Frac(x * Unit * Unit, y)

\* float32 == and > ; every comparison with NaN is false
FEq(x, y) == ~x.nan /\ ~y.nan /\ x.num * y.den = y.num * x.den
FGt(x, y) == ~x.nan /\ ~y.nan /\ x.num * y.den > y.num * x.den

dotproduct(a, b) ==
  IF Len(a) # Len(b) THEN 0
  ELSE SumTo([i \in 1..Len(a) |-> a[i] * b[i]], Len(a))

magnitude(a) == SumTo([i \in 1..Len(a) |-> a[i] * a[i]], Len(a))

similarity(a, b) == Div(dotproduct(a, b), magnitude(a) * magnitude(b))

----------------------------------------------------------------------------
(* The embedding model: a fixed table from text to vector *)

Embed(c) ==
  CASE c = "A" -> <<10, 0>>
    [] c = "B" -> <<0, 10>>
    [] c = "C" -> <<9, 1>>
    [] c = "D" -> <<5, 5>>
    [] OTHER   -> <<0, 0>>

\* chunk lists handed to addVectorDocuments, and questions asked
Documents == {<<>>, <<"A", "B", "C">>, <<"D">>}
Questions == {"A", "Z"}

----------------------------------------------------------------------------
(* vdb.gob *)

NoFile == [exists |-> FALSE, data |-> <<>>]
File(cells) == [exists |-> TRUE, data |-> cells]

Doc(e, c) == [Embedding |-> e, Content |-> c]
ZeroDoc == Doc(<<>>, "")

Header(n) == [kind |-> "hdr", n |-> n, doc |-> ZeroDoc]
DocCell(d) == [kind |-> "doc", n |-> 0, doc |-> d]
Junk == [kind |-> "junk", n |-> 0, doc |-> ZeroDoc]

\* gob.NewEncoder(file).Encode(vdb)
Encode(v) == <<Header(Len(v))>> \o [i \in 1..Len(v) |-> DocCell(v[i])]

\* a mutant of WriteAt0: the file is opened with O_APPEND
WriteAppend(f, bytes) == f \o bytes

\* a write at offset 0 of a file opened without O_TRUNC or O_APPEND
WriteAt0(f, bytes) == bytes \o SubSeq(f, Len(bytes) + 1, Len(f))

\* os.OpenFile(..., O_RDWR|O_CREATE): an absent file is created empty
OpenCreate(f) == IF f.exists THEN f.data ELSE <<>>

\* gob leaves a field out of the stream when it holds its zero value, and
\* the decoder leaves the destination's field alone for a field left out
MergeDoc(d, s) ==
  Doc(IF s.Embedding = <<>> THEN d.Embedding ELSE s.Embedding,
      IF s.Content = "" THEN d.Content ELSE s.Content)

\* number of leading record cells of the message that decode
RECURSIVE GoodPrefix(_, _, _)
GoodPrefix(f, i, n) ==
  IF i > n \/ f[1 + i].kind # "doc" THEN i - 1 ELSE GoodPrefix(f, i + 1, n)

\* a mutant of Decode: the decoded records are added to dst, not put in its place
DecodeMerging(f, dst) ==
  IF Len(f) = 0 \/ f[1].kind # "hdr" \/ Len(f) < 1 + f[1].n
  THEN [ok |-> FALSE, v |-> dst]
  ELSE LET n == f[1].n
           g == GoodPrefix(f, 1, n)
       IN [ok |-> g = n, v |-> dst \o [i \in 1..g |-> f[1 + i].doc]]

\* gob.NewDecoder(file).Decode(&dst) on an existing file f
Decode(f, dst) ==
  IF Len(f) = 0 \/ f[1].kind # "hdr" \/ Len(f) < 1 + f[1].n
  THEN [ok |-> FALSE, v |-> dst]
  ELSE LET n    == f[1].n
           base == IF Len(dst) >= n THEN SubSeq(dst, 1, n)
                   ELSE [i \in 1..n |-> ZeroDoc]
           g    == GoodPrefix(f, 1, n)
       IN [ok |-> g = n,
           v  |-> [i \in 1..n |->
                     IF i <= g THEN MergeDoc(base[i], f[1 + i].doc)
                     ELSE base[i]]]

----------------------------------------------------------------------------
(* Store operations *)

StoreInit ==
  /\ vdb = <<>>
  /\ file = NoFile
  /\ pc = "run"
  /\ lastOp = "start"
  /\ afterAdd = FALSE
  /\ question = ""
  /\ out = <<>>

AddOps == {"add", "addErrSaved"}
LoadOps == {"load", "loadFail"}

Step(op) == lastOp' = op /\ afterAdd' = (op \in LoadOps /\ lastOp \in AddOps)

\* addVectorDocuments(content); the embedder returns k vectors
addVectorDocuments(content, k, err) ==
  /\ pc = "run"
  /\ Len(vdb) + Len(content) <= MaxRecords
  /\ LET opened == OpenCreate(file)
         added  == [i \in 1..k |-> Doc(Embed(content[i]), content[i])]
     IN IF k < Len(content)
        THEN \* embeddings[k] is out of range: panic inside the loop
             /\ vdb' = vdb \o added
             /\ file' = File(opened)
             /\ pc' = "crashed"
             /\ Step("addPanic")
        ELSE /\ vdb' = vdb \o added
             /\ file' = File(WriteAt0(opened, Encode(vdb')))
             /\ pc' = pc
             /\ Step(IF err THEN "addErrSaved" ELSE "add")
  /\ question' = "" /\ out' = <<>>

Add ==
  \E content \in Documents :
    \/ addVectorDocuments(content, Len(content), FALSE)
    \/ addVectorDocuments(content, 0, TRUE)
    \/ \E k \in 0..(Len(content) - 1) : addVectorDocuments(content, k, FALSE)

\* loadVdb()
loadVdb ==
  /\ pc = "run"
  /\ IF ~file.exists
     THEN \* os.Open fails
          vdb' = vdb /\ Step("loadFail")
     ELSE LET r == Decode(file.data, vdb)
          IN vdb' = r.v /\ Step(IF r.ok THEN "load" ELSE "loadFail")
  /\ question' = "" /\ out' = <<>>
  /\ UNCHANGED <<file, pc>>

Load == loadVdb

\* chunks := make(map[float32]string); chunks[sim] = doc.Content.  The map is
\* a sequence of entries; a NaN key equals no key, so it always adds an entry
MapPut(m, k, v) ==
  IF \E i \in 1..Len(m) : FEq(m[i].k, k)
  THEN [i \in 1..Len(m) |-> IF FEq(m[i].k, k) THEN [k |-> m[i].k, v |-> v] ELSE m[i]]
  ELSE Append(m, [k |-> k, v |-> v])

\* chunks[key]: the zero value "" when no key equals it (always so for NaN)
MapGet(m, k) ==
  IF \E i \in 1..Len(m) : FEq(m[i].k, k)
  THEN m[CHOOSE i \in 1..Len(m) : FEq(m[i].k, k)].v
  ELSE ""

\* the loop over vdb that fills the map, records 1..n in order
RECURSIVE Chunks(_, _, _)
Chunks(q, store, n) ==
  IF n = 0 THEN <<>>
  ELSE MapPut(Chunks(q, store, n - 1),
              similarity(q, store[n].Embedding), store[n].Content)

Perms(n) == {p \in [1..n -> 1..n] : \A i, j \in 1..n : p[i] = p[j] => i = j}

\* sort.Slice(keys, keys[i] > keys[j]) on the keys in map iteration order.
\* Map iteration order is arbitrary and a slice this short is insertion
\* sorted, so the outcomes are exactly the arrangements in which no key is
\* greater than the key before it (with NaN keys there are several).
SortedOrders(m) ==
  {p \in Perms(Len(m)) :
     \A j \in 1..(Len(m) - 1) : ~FGt(m[p[j + 1]].k, m[p[j]].k)}

\* getSimilarChunks(q); embOk: the embedder returned a vector for q
getSimilarChunks(q, embOk) ==
  /\ pc = "run"
  /\ question' = q
  /\ IF ~embOk
     THEN \* embedding[0] on an empty slice: panic
          /\ out' = <<>> /\ pc' = "crashed" /\ Step("queryEmbedPanic")
     ELSE LET m == Chunks(Embed(q), vdb, Len(vdb))
          IN IF Len(m) < TopK
             THEN \* keys[:3] beyond cap(keys): panic
                  /\ out' = <<>> /\ pc' = "crashed" /\ Step("queryPanic")
             ELSE /\ \E p \in SortedOrders(m) :
                       out' = [i \in 1..TopK |-> MapGet(m, m[p[i]].k)]
                  /\ pc' = pc
                  /\ Step("query")
  /\ UNCHANGED <<vdb, file>>

Query ==
  \E q \in Questions :
    \/ getSimilarChunks(q, TRUE)
    \/ getSimilarChunks(q, FALSE)

\* the process ends (main returns or the panic unwinds) and a new one starts
NewProcess ==
  /\ vdb' = <<>>
  /\ pc' = "run"
  /\ Step("start")
  /\ question' = "" /\ out' = <<>>
  /\ UNCHANGED file

\* the environment removes vdb.gob
RemoveFile ==
  /\ file.exists
  /\ file' = NoFile
  /\ Step("env")
  /\ question' = "" /\ out' = <<>>
  /\ UNCHANGED <<vdb, pc>>

\* the environment damages one cell of an undamaged vdb.gob
Corrupt ==
  /\ file.exists
  /\ \A i \in 1..Len(file.data) : file.data[i].kind # "junk"
  /\ \E i \in 1..Len(file.data) :
       /\ file.data[i].kind # "junk"
       /\ file' = [file EXCEPT !.data[i] = Junk]
  /\ Step("env")
  /\ question' = "" /\ out' = <<>>
  /\ UNCHANGED <<vdb, pc>>

----------------------------------------------------------------------------
(* The chunk cleaner.  A string is a sequence of one-character strings. *)

Space == " "
Tab == "\t"
Newline == "\n"

\* first index at which sep occurs in s, or 0
FirstAt(s, sep) ==
  LET hits == {i \in 1..(Len(s) - Len(sep) + 1) :
                 SubSeq(s, i, i + Len(sep) - 1) = sep}
  IN IF hits = {} THEN 0 ELSE CHOOSE i \in hits : \A j \in hits : i <= j

\* strings.Split(s, sep) for a non-empty sep
RECURSIVE Split(_, _)
Split(s, sep) ==
  LET i == FirstAt(s, sep)
  IN IF i = 0 THEN <<s>>
     ELSE <<SubSeq(s, 1, i - 1)>> \o Split(SubSeq(s, i + Len(sep), Len(s)), sep)

IsSpace(c) == c \in {Space, Tab, Newline}

\* strings.TrimSpace(s)
TrimSpace(s) ==
  LET keep == {i \in 1..Len(s) : ~IsSpace(s[i])}
  IN IF keep = {} THEN <<>>
     ELSE SubSeq(s, CHOOSE i \in keep : \A j \in keep : i <= j,
                    CHOOSE i \in keep : \A j \in keep : i >= j)

\* a mutant of removeDuplicates: keeps the last occurrence of each item
RECURSIVE removeDuplicatesKeepLast(_)
removeDuplicatesKeepLast(s) ==
  IF s = <<>> THEN <<>>
  ELSE IF \E j \in 2..Len(s) : s[j] = s[1]
       THEN removeDuplicatesKeepLast(Tail(s))
       ELSE <<s[1]>> \o removeDuplicatesKeepLast(Tail(s))

\* the loop of removeDuplicates over s[1..n]: an item is appended unless seen
RECURSIVE Unique(_, _)
Unique(s, n) ==
  IF n = 0 THEN <<>>
  ELSE IF \E j \in 1..(n - 1) : s[j] = s[n]
       THEN Unique(s, n - 1)
       ELSE Append(Unique(s, n - 1), s[n])

removeDuplicates(s) == Unique(s, Len(s))

\* the test of removeShortStrings: len(strings.Split(str, " ")) > 3
Long(str) == Len(Split(str, <<Space>>)) > ShortLen

RECURSIVE removeShortStrings(_)
removeShortStrings(slice) ==
  IF slice = <<>> THEN <<>>
  ELSE (IF Long(slice[1]) THEN <<slice[1]>> ELSE <<>>)
       \o removeShortStrings(Tail(slice))

\* the split and trimmed segments of clean, before any is removed
Segments(content) ==
  LET split == Split(content, <<Newline, Newline>>)
  IN [i \in 1..Len(split) |-> TrimSpace(split[i])]

clean(content) == removeShortStrings(removeDuplicates(Segments(content)))

\* input texts: up to MaxAtoms atoms, one after the other
Atoms == { <<"a">>, <<Space>>, <<Newline>>, <<Newline, Newline>>, <<Tab, "a">>,
           <<"a", Space, "a", Space, "a", Space, "a">>,
           <<"b", Space, "b", Space, "b", Space, "b">> }

RECURSIVE Flatten(_)
Flatten(t) == IF t = <<>> THEN <<>> ELSE Head(t) \o Flatten(Tail(t))

Texts == {Flatten(t) : t \in UNION {[1..n -> Atoms] : n \in 0..MaxAtoms}}

Clean ==
  /\ ~cdone
  /\ cleaned' = clean(text)
  /\ cdone' = TRUE
  /\ UNCHANGED text

----------------------------------------------------------------------------
(* dotproduct and similarity on their own *)

Values == {-10, 0, 5, 10}
Vectors == UNION {[1..n -> Values] : n \in 0..MaxDim}

Compute ==
  /\ ~sdone
  /\ dp' = dotproduct(va, vb)
  /\ sim' = similarity(va, vb)
  /\ sdone' = TRUE
  /\ UNCHANGED <<va, vb>>

----------------------------------------------------------------------------
(* Specifications *)

IdleClean == text = <<>> /\ cleaned = <<>> /\ cdone = FALSE
IdleSim == va = <<>> /\ vb = <<>> /\ dp = 0 /\ sim = NaN /\ sdone = FALSE

Init == StoreInit /\ IdleClean /\ IdleSim

Next ==
  \/ Add /\ UNCHANGED <<cleanVars, simVars>>
  \/ Load /\ UNCHANGED <<cleanVars, simVars>>
  \/ Query /\ UNCHANGED <<cleanVars, simVars>>
  \/ NewProcess /\ UNCHANGED <<cleanVars, simVars>>
  \/ RemoveFile /\ UNCHANGED <<cleanVars, simVars>>
  \/ Corrupt /\ UNCHANGED <<cleanVars, simVars>>

Spec == Init /\ [][Next]_vars

\* clean applied to every text of Texts
InitClean ==
  /\ StoreInit
  /\ text \in Texts /\ cleaned = <<>> /\ cdone = FALSE
  /\ IdleSim

NextClean == Clean /\ UNCHANGED <<storeVars, simVars>>

SpecClean == InitClean /\ [][NextClean]_vars

\* dotproduct and similarity applied to every pair of Vectors
InitSim ==
  /\ StoreInit
  /\ IdleClean
  /\ va \in Vectors /\ vb \in Vectors
  /\ dp = 0 /\ sim = NaN /\ sdone = FALSE

NextSim == Compute /\ UNCHANGED <<storeVars, cleanVars>>

SpecSim == InitSim /\ [][NextSim]_vars

----------------------------------------------------------------------------
(* Claims *)

\* what a fresh process would load from vdb.gob
Snapshot(f) == IF f.exists THEN Decode(f.data, <<>>) ELSE [ok |-> FALSE, v |-> <<>>]

\* C1: a load that directly follows a completed append of the same process
\* succeeds and leaves vdb exactly as the append left it (same records, same
\* order, same content and embedding).
C1_RoundTrip ==
  [][(lastOp \in AddOps /\ lastOp' \in LoadOps)
       => (lastOp' = "load" /\ vdb' = vdb)]_vars

C1_Witness == lastOp = "load" /\ afterAdd /\ Len(vdb) >= 2

\* C2: after every completed append the snapshot decodes to exactly the
\* in-memory sequence; records of an earlier, longer snapshot are not part of it.
C2_SnapshotIsMemory ==
  lastOp \in AddOps => (Snapshot(file).ok /\ Snapshot(file).v = vdb)

\* an append over a longer snapshot left behind by an earlier process
C2_Witness ==
  /\ lastOp = "add"
  /\ Len(vdb) >= 1
  /\ Len(file.data) > 1 + Len(vdb)
  /\ Snapshot(file).v = vdb

\* C3: after a load that found the file absent or undecodable the process
\* still runs and vdb is the empty sequence.
C3_FailedLoadLeavesEmpty ==
  lastOp = "loadFail" => (pc = "run" /\ vdb = <<>>)

QueryOps == {"query", "queryPanic"}

SimTo(q, i) == similarity(Embed(q), vdb[i].Embedding)
FGe(x, y) == FGt(x, y) \/ FEq(x, y)

\* res holds the contents of the TopK records most similar to q, best first
IsTopK(res, q) ==
  /\ Len(res) = TopK
  /\ \E idx \in [1..TopK -> 1..Len(vdb)] :
       /\ \A i, j \in 1..TopK : idx[i] = idx[j] => i = j
       /\ \A i \in 1..TopK : res[i] = vdb[idx[i]].Content
       /\ \A i \in 1..(TopK - 1) : FGe(SimTo(q, idx[i]), SimTo(q, idx[i + 1]))
       /\ \A r \in 1..Len(vdb) :
            (\A i \in 1..TopK : idx[i] # r) => FGe(SimTo(q, idx[TopK]), SimTo(q, r))

\* C4: on a store of at least 3 records getSimilarChunks returns exactly 3
\* contents, those of the 3 records most similar to the question, in
\* descending order of similarity, ties included.
C4_TopThree ==
  (lastOp \in QueryOps /\ Len(vdb) >= TopK)
    => (lastOp = "query" /\ IsTopK(out, question))

\* C5: on a store of fewer than 3 records getSimilarChunks completes and
\* returns the contents of all the records (none for the empty store).
C5_FewRecords ==
  (lastOp \in QueryOps /\ Len(vdb) < TopK)
    => /\ lastOp = "query"
       /\ Len(out) = Len(vdb)
       /\ \E p \in Perms(Len(vdb)) : \A i \in 1..Len(vdb) : out[i] = vdb[p[i]].Content

StoreABC == <<Doc(<<10, 0>>, "A"), Doc(<<0, 10>>, "B"), Doc(<<9, 1>>, "C")>>

\* C6: with records A [1,0], B [0,1], C [0.9,0.1] and the question embedded as
\* [1,0], A is more similar than C, C more than B, and the two highest-ranked
\* contents are A then C.
C6_RankingABC ==
  (lastOp \in QueryOps /\ vdb = StoreABC /\ Embed(question) = <<10, 0>>)
    => /\ lastOp = "query"
       /\ SubSeq(out, 1, 2) = <<"A", "C">>
       /\ FGt(SimTo(question, 1), SimTo(question, 3))
       /\ FGt(SimTo(question, 3), SimTo(question, 2))

FirstIndex(s, x) == CHOOSE i \in 1..Len(s) : s[i] = x /\ \A j \in 1..(i - 1) : s[j] # x

\* C7: clean returns each distinct trimmed segment at most once, and the
\* segments it returns stand in the order of their first occurrence in the text.
C7_UniqueInOrder ==
  cdone =>
    LET segs == Segments(text)
    IN /\ \A i \in 1..Len(cleaned) : \E k \in 1..Len(segs) : segs[k] = cleaned[i]
       /\ \A i, j \in 1..Len(cleaned) :
            i < j => /\ cleaned[i] # cleaned[j]
                     /\ FirstIndex(segs, cleaned[i]) < FirstIndex(segs, cleaned[j])

\* a text whose first kept segment occurs again after the second kept segment
C7_Witness ==
  /\ cdone
  /\ Len(cleaned) = 2
  /\ LET segs == Segments(text)
     IN \E i, j, k \in 1..Len(segs) :
          i < j /\ j < k /\ segs[i] = cleaned[1] /\ segs[j] = cleaned[2]
          /\ segs[k] = cleaned[1]

\* number of maximal runs of non-whitespace characters of s
TokenCount(s) ==
  Cardinality({i \in 1..Len(s) : ~IsSpace(s[i]) /\ (i = 1 \/ IsSpace(s[i - 1]))})

InSeq(s, x) == \E i \in 1..Len(s) : s[i] = x

\* C8: a trimmed segment is left out of the result of clean if and only if it
\* has at most 3 tokens, tokens being separated by any run of spaces, tabs or
\* single newlines.
C8_ShortByTokens ==
  cdone =>
    LET segs == Segments(text)
    IN \A k \in 1..Len(segs) :
         ~InSeq(cleaned, segs[k]) <=> TokenCount(segs[k]) <= ShortLen

\* C9: on vectors of different lengths dotproduct is 0 and similarity is the
\* number 0, not NaN.
C9_MismatchIsZero ==
  (sdone /\ Len(va) # Len(vb)) => (dp = 0 /\ ~sim.nan /\ sim.num = 0)

\* C10: an append whose embedding call returned one vector per chunk adds, for
\* every i, the record (vector i, chunk i); an append whose embedding call
\* failed or returned too few vectors leaves vdb.gob as it was: absent if it
\* was absent, decoding to the same sequence if it existed.
C10_AllOrNothing ==
  [][/\ lastOp' = "add" =>
          \E content \in Documents :
            vdb' = vdb \o [i \in 1..Len(content) |->
                             Doc(Embed(content[i]), content[i])]
     /\ lastOp' \in {"addPanic", "addErrSaved"} =>
          /\ file'.exists = file.exists
          /\ Snapshot(file') = Snapshot(file)]_vars

====
